---- MODULE Spec2Model ----
(***************************************************************************)
(* Windowed nearest-neighbour itinerary construction of nearNextP8bWindow  *)
(* (src/uniSpherical/nearNextP8bWindow.c; nearNextP8b.c is the same code   *)
(* over Cs8 tokens).                                                       *)
(*                                                                         *)
(* Six specifications share the actions of main():                        *)
(*   Spec     the whole program main(): argument checks, file opening,     *)
(*            size check, load, driver loop, sort, output;                 *)
(*   SpecWin  the search engine alone (driver loop over closeInWin and     *)
(*            closeOutWin) started from a loaded store with any            *)
(*            half-window iWin >= 0, as the functions themselves accept;   *)
(*   SpecFn   one call of closeInWin, and of closeOutWin when it finds     *)
(*            nothing, on any store in which index 0 and the pivot are     *)
(*            visited and some location is not;                            *)
(*   SpecIO   the whole program on devices whose reads and writes may fail; *)
(*   SpecArgs the whole program with a window argument of any kind, on     *)
(*            short files;                                                 *)
(*   SpecSort the sort and the length report on any completed store.       *)
(* SpecWinFair is SpecWin, on smaller stores, with the fairness of a       *)
(* running thread.                                                         *)
(* Three more programs of the repository have a specification each:        *)
(*   SpecBf   nearNextP8bBruteForce.c from its loaded array to its output; *)
(*   SpecList listP8b.c from its first read to its end;                    *)
(*   SpecRgn  rgnToR8b (src/unnamed/part_000) from its first input line to *)
(*            its end.                                                     *)
(***************************************************************************)
EXTENDS Integers, Sequences, FiniteSets

----------------------------------------------------------------------------
(* Bounds of the model *)

\* largest input file length, in bytes, the whole-program specification draws
MaxFileSize == 80

\* location tokens read from the input file are 0..MaxTok
MaxTok == 1

\* largest number of locations of a store the engine specification draws
WinMaxN == 5

\* location tokens of the engine specification are 0..WinMaxTok
WinMaxTok == 2

\* half-window widths of the engine specification are 0..MaxHalf
MaxHalf == 6

\* the runs followed to their end start from stores of 1..FairMaxN locations
\* with tokens 0..FairMaxTok
FairMaxN == 4
FairMaxTok == 1

\* the single-call specification draws stores of 2..FnMaxN locations with
\* any tokens of 0..FnMaxTok, longer stores up to OutMaxN locations with one
\* token at every index, and half-window widths 0..FnMaxHalf
FnMaxN == 5
FnMaxTok == 1
OutMaxN == 7
FnMaxHalf == 3

\* largest input file length, in bytes, of the argument specification
ArgsMaxFileSize == 24

\* the sort specification draws completed stores of 1..SortMaxN locations
\* with tokens 0..SortMaxTok
SortMaxN == 4
SortMaxTok == 1

\* nearNextP8bBruteForce: stores of 1..BfMaxN locations, tokens 0..BfMaxTok
BfMaxN == 5
BfMaxTok == 2

\* listP8b: files of 0..ListMaxN records; a record is a plate number
\* 0..ListMaxPlate (the four high bits) and a low part 0..ListMaxLow; the
\* line limit is at most ListMaxK
ListMaxN == 3
ListMaxPlate == 2
ListMaxLow == 1
ListMaxK == 2

\* rgnToR8b: input files of at most RgnMaxLines lines; the vertices are the
\* tokens 0..RgnMaxTok
RgnMaxLines == 5
RgnMaxTok == 1

----------------------------------------------------------------------------
(* Program constants *)

MIN_WIN == 16
MAX_WIN == 32000

\* sizeof(nemoPtUs8): a Us8 location token is an 8-byte record
UsRecSize == 8

\* initial value of the running minimum, above every chord square (at most 4)
NEMO_DOUBLE_HUGE == 1000000

\* rgnToR8b: the initial value of minVert
RgnMinVertInit == 2147483647

\* rgnToR8b: the first ring id whose marker record has a non-zero plate
\* nibble (the id is stored from bit 32 up, the plate is bits 60..63)
RgnPlateLimit == 268435456

VARIABLES
    pc,           \* position of main()
    exitMsg,      \* message of the errorExit that ended the run, or "none"
    argc,         \* number of command-line words
    winArg,       \* atoi(argv[3])
    inOpened,     \* the input file has been opened for reading
    outCreated,   \* the output path has been created/truncated by fopen "wb"
    inFile,       \* complete records of the input file (tokens)
    inFileSize,   \* length of the input file in bytes
    outFile,      \* records written to the output file
    lcnCnt,       \* number of locations
    locs,         \* the location array, index 0..lcnCnt-1
    iWin,         \* half of the search window
    nInsideWin,   \* diagnostic counter of closeInWin calls
    nOutsideWin,  \* diagnostic counter of closeOutWin calls
    k,            \* next visitation order to assign
    nPrev,        \* index of the last visited location
    nNext,        \* index found by the searches, -1 when none
    itin,         \* history: input indices in the order they were visited
    ioError,      \* history: "read"/"write" once an fread/fwrite has failed
    totalLength,      \* length of the open itinerary, in quarter circles
    returnLegLength,  \* length of the leg from the last location to the first
    locations,    \* nearNextP8bBruteForce: the token array, index 0..lcnCnt-1
    bfN,          \* nearNextP8bBruteForce: n of the main loop
    listK,        \* listP8b: k, the limit of output lines (0: no limit)
    listN,        \* listP8b: n, the number of lines printed
    listM,        \* listP8b: m, the result of the last fread
    ptUs8,        \* listP8b: the record read last
    prevPtUs8,    \* listP8b: the record the checks compare with
    printed,      \* listP8b: the records whose lines were printed
    nLnIn,        \* rgnToR8b: input lines read
    nComments,    \* rgnToR8b: comment lines
    nMarks,       \* rgnToR8b: marker lines
    markLast,     \* rgnToR8b: markers met with no vertex before them
    nSegPts,      \* rgnToR8b: vertices written for the ring being read
    nTotalPts,    \* rgnToR8b: vertices of the rings closed by a marker
    nRecOut,      \* rgnToR8b: records written to the output file
    maxVert,      \* rgnToR8b: largest vertex count of a ring
    minVert,      \* rgnToR8b: smallest vertex count of a ring
    prevSeg,      \* rgnToR8b: id of the previous ring
    nCountMismatch,  \* rgnToR8b: markers whose count is not the count read
    nIdSequence,  \* rgnToR8b: markers whose id is not the previous id + 1
    nRingOpen,    \* rgnToR8b: rings counted as open
    rgnPtUs8,     \* rgnToR8b: ptUs8, the vertex written last
    ringStartPtUs8,  \* rgnToR8b: the vertex the open-ring test compares with
    ringFirst,    \* history: the first vertex of the ring being read
    ringsOpen     \* history: rings whose last vertex was not their first

\* the variables of nearNextP8bBruteForce and of listP8b alone
bfVars == <<locations, bfN>>
listVars == <<listK, listN, listM, ptUs8, prevPtUs8, printed>>
rgnVars == <<nLnIn, nComments, nMarks, markLast, nSegPts, nTotalPts, nRecOut,
             maxVert, minVert, prevSeg, nCountMismatch, nIdSequence,
             nRingOpen, rgnPtUs8, ringStartPtUs8, ringFirst, ringsOpen>>

vars == <<pc, exitMsg, argc, winArg, inOpened, outCreated, inFile, inFileSize,
          outFile, lcnCnt, locs, iWin, nInsideWin, nOutsideWin, k, nPrev,
          nNext, itin, ioError, totalLength, returnLegLength, bfVars,
          listVars, rgnVars>>

----------------------------------------------------------------------------
(* The distance oracle: token -> direction cosines -> chord square *)

\* nemo_Us8ToNcs: direction cosines of a token; the tokens of the model are
\* the six points where the axes meet the unit sphere
Us8ToNcs(t) ==
    <<  <<1, 0, 0>>, <<0, 1, 0>>, <<-1, 0, 0>>,
        <<0, -1, 0>>, <<0, 0, 1>>, <<0, 0, -1>>  >>[(t % 6) + 1]

\* NEMO_ChordSq3: square of the chord between two direction-cosine triples
NEMO_ChordSq3(a, b) ==
    (a[1] - b[1]) * (a[1] - b[1]) + (a[2] - b[2]) * (a[2] - b[2])
        + (a[3] - b[3]) * (a[3] - b[3])

----------------------------------------------------------------------------
(* closeInWin *)

\* the window start without the clamp to 0
WinStartUnclamped(nLast) == nLast - iWin

WinStartShifted(nLast) == IF nLast - iWin + 1 < 0 THEN 0 ELSE nLast - iWin + 1

\* nStart = nLast - iWin; if (nStart < 0) nStart = 0;
WinStart(nLast) == IF nLast - iWin < 0 THEN 0 ELSE nLast - iWin

WinEndUnclamped(nLast) == IF nLast + iWin > lcnCnt - 1 THEN lcnCnt - 1 ELSE nLast + iWin

\* the window end that takes the index nLast + iWin in
WinEndInclusive(nLast) ==
    IF nLast + iWin + 1 > lcnCnt THEN lcnCnt ELSE nLast + iWin + 1

\* nEnd = nLast + iWin; if (nEnd > lcnCnt) nEnd = lcnCnt;
WinEnd(nLast) == IF nLast + iWin > lcnCnt THEN lcnCnt ELSE nLast + iWin

IsCloserOrEqual(csq, csqMin) == csq <= csqMin

\* if (csq < csqMin): a new closest in-window point was found
IsCloser(csq, csqMin) == csq < csqMin

\* the for loop that passes over the pivot alone, not over every visited
\* location
RECURSIVE InWinScanSkipsPivotOnly(_, _, _, _, _)
InWinScanSkipsPivotOnly(n, nEnd, nLast, csqMin, nMin) ==
    IF ~(n < nEnd) THEN nMin
    ELSE IF n = nLast
         THEN InWinScanSkipsPivotOnly(n + 1, nEnd, nLast, csqMin, nMin)
    ELSE LET csq == NEMO_ChordSq3(Us8ToNcs(locs[nLast].ptUs8),
                                   Us8ToNcs(locs[n].ptUs8))
         IN  IF IsCloser(csq, csqMin)
             THEN InWinScanSkipsPivotOnly(n + 1, nEnd, nLast, csq, n)
             ELSE InWinScanSkipsPivotOnly(n + 1, nEnd, nLast, csqMin, nMin)

\* the for loop of closeInWin from index n on, with the running minimum
\* csqMin found at index nMin; the value is the final nMin
RECURSIVE InWinScan(_, _, _, _, _)
InWinScan(n, nEnd, nLast, csqMin, nMin) ==
    IF ~(n < nEnd) THEN nMin
    ELSE IF locs[n].iOrd # -1 THEN InWinScan(n + 1, nEnd, nLast, csqMin, nMin)
    ELSE LET csq == NEMO_ChordSq3(Us8ToNcs(locs[nLast].ptUs8),
                                   Us8ToNcs(locs[n].ptUs8))
         IN  IF IsCloser(csq, csqMin)
             THEN InWinScan(n + 1, nEnd, nLast, csq, n)
             ELSE InWinScan(n + 1, nEnd, nLast, csqMin, nMin)

closeInWin(nLast) ==
    InWinScan(WinStart(nLast), WinEnd(nLast), nLast, NEMO_DOUBLE_HUGE, -1)

\* the indices at which the call closeInWin(nLast) reads locs[]: the pivot
\* (line 184) and every n of the for loop (lines 187-190)
closeInWinReads(nLast) ==
    {nLast} \cup (WinStart(nLast)..(WinEnd(nLast) - 1))

----------------------------------------------------------------------------
(* closeOutWin *)

OutScanGoesOnBothOpen(nLow, nHigh) == (nLow > 0) /\ (nHigh < lcnCnt)

\* while ((nLow > 0) || (nHigh < lcnCnt))
OutScanGoesOn(nLow, nHigh) == (nLow > 0) \/ (nHigh < lcnCnt)

\* the loop that goes down the whole low side before it looks above
RECURSIVE OutWinScanLowSideFirst(_, _)
OutWinScanLowSideFirst(nLow, nHigh) ==
    IF ~OutScanGoesOn(nLow, nHigh) THEN -1
    ELSE IF nLow > 0
         THEN IF locs[nLow].iOrd = -1 THEN nLow
              ELSE OutWinScanLowSideFirst(nLow - 1, nHigh)
    ELSE IF locs[nHigh].iOrd = -1 THEN nHigh
    ELSE OutWinScanLowSideFirst(nLow, nHigh + 1)

\* the while loop of closeOutWin from the boundaries nLow, nHigh on
RECURSIVE OutWinScan(_, _)
OutWinScan(nLow, nHigh) ==
    IF ~OutScanGoesOn(nLow, nHigh) THEN -1
    ELSE IF nLow > 0 /\ locs[nLow].iOrd = -1 THEN nLow
    ELSE IF nHigh < lcnCnt /\ locs[nHigh].iOrd = -1 THEN nHigh
    ELSE OutWinScan(IF nLow > 0 THEN nLow - 1 ELSE nLow,
                    IF nHigh < lcnCnt THEN nHigh + 1 ELSE nHigh)

\* the same loop with the two tests of an iteration exchanged
RECURSIVE OutWinScanHighFirst(_, _)
OutWinScanHighFirst(nLow, nHigh) ==
    IF ~OutScanGoesOn(nLow, nHigh) THEN -1
    ELSE IF nHigh < lcnCnt /\ locs[nHigh].iOrd = -1 THEN nHigh
    ELSE IF nLow > 0 /\ locs[nLow].iOrd = -1 THEN nLow
    ELSE OutWinScanHighFirst(IF nLow > 0 THEN nLow - 1 ELSE nLow,
                             IF nHigh < lcnCnt THEN nHigh + 1 ELSE nHigh)

closeOutWinHighFirst(nLast) ==
    LET nLow == IF nLast - iWin < 0 THEN 0 ELSE nLast - iWin
        nHigh == IF nLast + iWin > lcnCnt THEN lcnCnt ELSE nLast + iWin
    IN  OutWinScanHighFirst(nLow, nHigh)

closeOutWin(nLast) ==
    LET nLow == IF nLast - iWin < 0 THEN 0 ELSE nLast - iWin
        nHigh == IF nLast + iWin > lcnCnt THEN lcnCnt ELSE nLast + iWin
    IN  OutWinScan(nLow, nHigh)

\* the indices at which the while loop of closeOutWin reads locs[] from the
\* boundaries nLow, nHigh on
RECURSIVE OutWinScanReads(_, _)
OutWinScanReads(nLow, nHigh) ==
    IF ~OutScanGoesOn(nLow, nHigh) THEN {}
    ELSE LET lowRead == IF nLow > 0 THEN {nLow} ELSE {}
             highRead == IF nHigh < lcnCnt THEN {nHigh} ELSE {}
         IN  IF nLow > 0 /\ locs[nLow].iOrd = -1 THEN lowRead
             ELSE IF nHigh < lcnCnt /\ locs[nHigh].iOrd = -1
                  THEN lowRead \cup highRead
             ELSE lowRead \cup highRead \cup
                  OutWinScanReads(IF nLow > 0 THEN nLow - 1 ELSE nLow,
                                  IF nHigh < lcnCnt THEN nHigh + 1 ELSE nHigh)

\* the indices at which the call closeOutWin(nLast) reads locs[]
closeOutWinReads(nLast) ==
    LET nLow == IF nLast - iWin < 0 THEN 0 ELSE nLast - iWin
        nHigh == IF nLast + iWin > lcnCnt THEN lcnCnt ELSE nLast + iWin
    IN  OutWinScanReads(nLow, nHigh)

\* the number of passes of the while loop of closeOutWin from the boundaries
\* nLow, nHigh on, the pass that returns included
RECURSIVE OutWinScanPasses(_, _)
OutWinScanPasses(nLow, nHigh) ==
    IF ~OutScanGoesOn(nLow, nHigh) THEN 0
    ELSE IF nLow > 0 /\ locs[nLow].iOrd = -1 THEN 1
    ELSE IF nHigh < lcnCnt /\ locs[nHigh].iOrd = -1 THEN 1
    ELSE 1 + OutWinScanPasses(IF nLow > 0 THEN nLow - 1 ELSE nLow,
                              IF nHigh < lcnCnt THEN nHigh + 1 ELSE nHigh)

\* the passes of the loop in the call closeOutWin(nLast)
closeOutWinPasses(nLast) ==
    LET nLow == IF nLast - iWin < 0 THEN 0 ELSE nLast - iWin
        nHigh == IF nLast + iWin > lcnCnt THEN lcnCnt ELSE nLast + iWin
    IN  OutWinScanPasses(nLow, nHigh)

----------------------------------------------------------------------------
(* qsort(locs, lcnCnt, sizeof(struct loc), compIntsIx0) *)

compIntsIx0Reversed(p1, p2) == p2.iOrd - p1.iOrd

\* the first int of each struct decides the order
compIntsIx0(p1, p2) == p1.iOrd - p2.iOrd

\* the sorted sequence s with the element e put before the first element
\* that compares greater than e
\* the insertion that never compares: the element goes to the front
InsertSortedFront(s, e) == <<e>> \o s

RECURSIVE InsertSorted(_, _)
InsertSorted(s, e) ==
    IF s = <<>> THEN <<e>>
    ELSE IF compIntsIx0(e, Head(s)) < 0 THEN <<e>> \o s
    ELSE <<Head(s)>> \o InsertSorted(Tail(s), e)

RECURSIVE SortPrefix(_, _)
SortPrefix(base, n) ==
    IF n = 0 THEN <<>> ELSE InsertSorted(SortPrefix(base, n - 1), base[n - 1])

\* the array base[0..num-1] in the order of compIntsIx0
qsort(base, num) ==
    LET s == SortPrefix(base, num) IN [n \in 0..(num - 1) |-> s[n + 1]]

----------------------------------------------------------------------------
(* main() *)

NoLocs == [n \in 0..(-1) |-> [iOrd |-> -1, ptUs8 |-> 0]]

\* the other two programs are not running
BfIdle == locations = <<>> /\ bfN = 0
ListIdle ==
    /\ listK = 0 /\ listN = 0 /\ listM = 0
    /\ ptUs8 = 0 /\ prevPtUs8 = 0 /\ printed = <<>>

\* rgnToR8b is not running
RgnIdle ==
    /\ nLnIn = 0 /\ nComments = 0 /\ nMarks = 0 /\ markLast = 0
    /\ nSegPts = 0 /\ nTotalPts = 0 /\ nRecOut = 0
    /\ maxVert = 0 /\ minVert = 0 /\ prevSeg = 0
    /\ nCountMismatch = 0 /\ nIdSequence = 0 /\ nRingOpen = 0
    /\ rgnPtUs8 = 0 /\ ringStartPtUs8 = 0 /\ ringFirst = 0 /\ ringsOpen = 0

Init ==
    /\ pc = "args"
    /\ exitMsg = "none"
    /\ argc = 0
    /\ winArg = 0
    /\ inOpened = FALSE
    /\ outCreated = FALSE
    /\ inFile = <<>>
    /\ inFileSize = 0
    /\ outFile = <<>>
    /\ lcnCnt = 0
    /\ locs = NoLocs
    /\ iWin = 0
    /\ nInsideWin = 0
    /\ nOutsideWin = 0
    /\ k = 0
    /\ nPrev = 0
    /\ nNext = 0
    /\ itin = <<>>
    /\ ioError = "none"
    /\ totalLength = 0
    /\ returnLegLength = 0
    /\ BfIdle
    /\ ListIdle
    /\ RgnIdle

\* if (argc < 4) errorExit(...)
CheckArgs ==
    /\ pc = "args"
    /\ \E c \in {3, 4} :
        /\ argc' = c
        /\ IF c < 4
           THEN pc' = "exit" /\ exitMsg' = "command-line arguments"
           ELSE pc' = "openIn" /\ exitMsg' = exitMsg
    /\ UNCHANGED <<ioError, totalLength, returnLegLength, bfVars, listVars, rgnVars>>
    /\ UNCHANGED <<winArg, inOpened, outCreated, inFile, inFileSize, outFile,
                   lcnCnt, locs, iWin, nInsideWin, nOutsideWin, k, nPrev,
                   nNext, itin>>

\* inFp = fopen(argv[1], "rb")
OpenInput ==
    /\ pc = "openIn"
    /\ \E opens \in BOOLEAN :
        IF ~opens
        THEN /\ pc' = "exit"
             /\ exitMsg' = "Can't open for reading locations"
             /\ inOpened' = inOpened
        ELSE /\ pc' = "openOut"
             /\ exitMsg' = exitMsg
             /\ inOpened' = TRUE
    /\ UNCHANGED <<ioError, totalLength, returnLegLength, bfVars, listVars, rgnVars>>
    /\ UNCHANGED <<argc, winArg, outCreated, inFile, inFileSize, outFile,
                   lcnCnt, locs, iWin, nInsideWin, nOutsideWin, k, nPrev,
                   nNext, itin>>

\* outFp = fopen(argv[2], "wb"); ...; fclose(outFp);
OpenOutput ==
    /\ pc = "openOut"
    /\ \E opens \in BOOLEAN :
        IF ~opens
        THEN /\ pc' = "exit"
             /\ exitMsg' = "Can't open for writing locations"
             /\ outCreated' = outCreated
             /\ outFile' = outFile
        ELSE /\ pc' = "window"
             /\ exitMsg' = exitMsg
             /\ outCreated' = TRUE
             /\ outFile' = <<>>
    /\ UNCHANGED <<ioError, totalLength, returnLegLength, bfVars, listVars, rgnVars>>
    /\ UNCHANGED <<argc, winArg, inOpened, inFile, inFileSize, lcnCnt, locs,
                   iWin, nInsideWin, nOutsideWin, k, nPrev, nNext, itin>>

\* values of atoi(argv[3]) the model draws
WinArgs == {0, MIN_WIN - 1, MIN_WIN, MAX_WIN + 1}

\* every kind of value atoi(argv[3]) can have: negative, 0 (also the value
\* of a non-numeric word), and the values around both limits
AllWinArgs == {-1, 0, MIN_WIN - 1, MIN_WIN, MIN_WIN + 1, MAX_WIN - 1, MAX_WIN,
               MAX_WIN + 1}

\* the range test with both limits excluded, as the text of the error
\* message has it ("16 < n < 32000")
WinOutOfRangeExclusive(n) == (n <= MIN_WIN) \/ (n >= MAX_WIN)

\* if ((n < MIN_WIN) || (n > MAX_WIN)) errorExit(...)
WinOutOfRange(n) == (n < MIN_WIN) \/ (n > MAX_WIN)

\* n = atoi(argv[3]); range check; iWin = n / 2;  Args is the set of values
\* of atoi(argv[3]) drawn
CheckWindowOf(Args) ==
    /\ pc = "window"
    /\ \E n \in Args :
        /\ winArg' = n
        /\ IF WinOutOfRange(n)
           THEN /\ pc' = "exit"
                /\ exitMsg' = "invalid window size"
                /\ iWin' = iWin
           ELSE /\ pc' = "size"
                /\ exitMsg' = exitMsg
                /\ iWin' = n \div 2
    /\ UNCHANGED <<ioError, totalLength, returnLegLength, bfVars, listVars, rgnVars>>
    /\ UNCHANGED <<argc, inOpened, outCreated, inFile, inFileSize, outFile,
                   lcnCnt, locs, nInsideWin, nOutsideWin, k, nPrev, nNext,
                   itin>>

CheckWindow == CheckWindowOf(WinArgs)

\* the window argument of any kind
CheckWindowAny == CheckWindowOf(AllWinArgs)

\* if (inFileSize%lcnCnt) errorExit(...): the remainder is taken by the
\* record count
SizeCheckFails(size, cnt) == (size % cnt) # 0

\* fseek/ftell; lcnCnt = inFileSize / sizeof(nemoPtUs8); size check.
\* With lcnCnt = 0 the remainder is a division by zero: the run traps, or
\* goes on with either outcome of the test.
\* (Lengths are drawn from maxSize downwards.)
FileSizeUpTo(maxSize) ==
    /\ pc = "size"
    /\ \E short \in 0..maxSize : LET size == maxSize - short IN
        /\ inFileSize' = size
        /\ lcnCnt' = size \div UsRecSize
        /\ IF size \div UsRecSize = 0
           THEN \/ pc' = "crash" /\ exitMsg' = exitMsg
                \/ pc' = "exit" /\ exitMsg' = "Input file size not multiple"
                \/ pc' = "load" /\ exitMsg' = exitMsg
           ELSE IF SizeCheckFails(size, size \div UsRecSize)
           THEN pc' = "exit" /\ exitMsg' = "Input file size not multiple"
           ELSE pc' = "load" /\ exitMsg' = exitMsg
    /\ UNCHANGED <<ioError, totalLength, returnLegLength, bfVars, listVars, rgnVars>>
    /\ UNCHANGED <<argc, winArg, inOpened, outCreated, inFile, outFile, locs,
                   iWin, nInsideWin, nOutsideWin, k, nPrev, nNext, itin>>

FileSize == FileSizeUpTo(MaxFileSize)

\* the size check on the short files of the argument specification
FileSizeShort == FileSizeUpTo(ArgsMaxFileSize)

\* token sequences of length n over 0..maxTok
TokenSeqs(n, maxTok) == [1..n -> 0..maxTok]

\* locs = malloc(...); for (n = 0; n < lcnCnt; n++) { fread; iOrd = -1; ... }
\* The result of fread is not looked at.  Reads is the set of numbers of
\* records the reads may deliver: the first `good` reads succeed, the later
\* ones fail and leave locUs8 as it was (not initialised before the first).
LoadLocsRead(Reads) ==
    /\ pc = "load"
    /\ \E recs \in TokenSeqs(lcnCnt, MaxTok), good \in Reads,
          junk \in 0..MaxTok :
        /\ (good > 0) => (junk = 0)
        /\ inFile' = recs
        /\ locs' = [n \in 0..(lcnCnt - 1) |->
                        [iOrd |-> -1,
                         ptUs8 |-> IF n < good THEN recs[n + 1]
                                   ELSE IF good = 0 THEN junk
                                   ELSE recs[good]]]
        /\ ioError' = IF good < lcnCnt THEN "read" ELSE ioError
    /\ pc' = "start"
    /\ UNCHANGED <<totalLength, returnLegLength, bfVars, listVars, rgnVars>>
    /\ UNCHANGED <<exitMsg, argc, winArg, inOpened, outCreated, inFileSize,
                   outFile, lcnCnt, iWin, nInsideWin, nOutsideWin, k, nPrev,
                   nNext, itin>>

\* the load when every read delivers its record
LoadLocs == LoadLocsRead({lcnCnt})

\* the load on a device whose reads may fail
LoadLocsFaulty == LoadLocsRead(0..lcnCnt)

\* the construction started from the last location of the array
StartFromLast ==
    /\ pc = "start"
    /\ nInsideWin' = 0
    /\ nOutsideWin' = 0
    /\ k' = 1
    /\ IF lcnCnt = 0
       THEN /\ locs' = locs
            /\ itin' = itin
            /\ nPrev' = 0
            /\ pc' \in {"crash", "sort"}
       ELSE /\ locs' = [locs EXCEPT ![lcnCnt - 1].iOrd = 0]
            /\ itin' = <<lcnCnt - 1>>
            /\ nPrev' = lcnCnt - 1
            /\ pc' = IF 1 < lcnCnt THEN "loop" ELSE "sort"
    /\ UNCHANGED <<ioError, totalLength, returnLegLength, bfVars, listVars, rgnVars>>
    /\ UNCHANGED <<exitMsg, argc, winArg, inOpened, outCreated, inFile,
                   inFileSize, outFile, lcnCnt, iWin, nNext>>

\* nInsideWin = nOutsideWin = 0; locs[0].iOrd = 0; nPrev = 0; k = 1;
\* and the first test of while (k < lcnCnt).
\* With lcnCnt = 0 the store to locs[0] is outside the array: the run traps
\* or goes on with the array as it is.
Start ==
    /\ pc = "start"
    /\ nInsideWin' = 0
    /\ nOutsideWin' = 0
    /\ nPrev' = 0
    /\ k' = 1
    /\ IF lcnCnt = 0
       THEN /\ locs' = locs
            /\ itin' = itin
            /\ pc' \in {"crash", "sort"}
       ELSE /\ locs' = [locs EXCEPT ![0].iOrd = 0]
            /\ itin' = <<0>>
            /\ pc' = IF 1 < lcnCnt THEN "loop" ELSE "sort"
    /\ UNCHANGED <<ioError, totalLength, returnLegLength, bfVars, listVars, rgnVars>>
    /\ UNCHANGED <<exitMsg, argc, winArg, inOpened, outCreated, inFile,
                   inFileSize, outFile, lcnCnt, iWin, nNext>>

\* the window search that itself gives the location it found its order
InWinMarksFound ==
    /\ pc = "loop"
    /\ nNext' = closeInWin(nPrev)
    /\ nInsideWin' = nInsideWin + 1
    /\ locs' = IF nNext' = -1 THEN locs
               ELSE [locs EXCEPT ![nNext'].iOrd = k]
    /\ pc' = "inDone"
    /\ UNCHANGED <<ioError, totalLength, returnLegLength, bfVars, listVars, rgnVars>>
    /\ UNCHANGED <<exitMsg, argc, winArg, inOpened, outCreated, inFile,
                   inFileSize, outFile, lcnCnt, iWin, nOutsideWin, k,
                   nPrev, itin>>

\* nNext = closeInWin(nPrev);
InWin ==
    /\ pc = "loop"
    /\ nNext' = closeInWin(nPrev)
    /\ nInsideWin' = nInsideWin + 1
    /\ pc' = "inDone"
    /\ UNCHANGED <<ioError, totalLength, returnLegLength, bfVars, listVars, rgnVars>>
    /\ UNCHANGED <<exitMsg, argc, winArg, inOpened, outCreated, inFile,
                   inFileSize, outFile, lcnCnt, locs, iWin, nOutsideWin, k,
                   nPrev, itin>>

\* the fallback called in every step, whatever closeInWin returned
OutWinUnconditional ==
    /\ pc = "inDone"
    /\ nNext' = closeOutWin(nPrev)
    /\ nOutsideWin' = nOutsideWin + 1
    /\ IF nNext' = -1
       THEN pc' = "exit" /\ exitMsg' = "Program assertion?"
       ELSE pc' = "outDone" /\ exitMsg' = exitMsg
    /\ UNCHANGED <<ioError, totalLength, returnLegLength, bfVars, listVars, rgnVars>>
    /\ UNCHANGED <<argc, winArg, inOpened, outCreated, inFile, inFileSize,
                   outFile, lcnCnt, locs, iWin, nInsideWin, k, nPrev, itin>>

\* if (nNext == -1) nNext = closeOutWin(nPrev);
\* if (nNext == -1) errorExit(..., "Program assertion?\n");
OutWin ==
    /\ pc = "inDone"
    /\ nNext = -1
    /\ nNext' = closeOutWin(nPrev)
    /\ nOutsideWin' = nOutsideWin + 1
    /\ IF nNext' = -1
       THEN pc' = "exit" /\ exitMsg' = "Program assertion?"
       ELSE pc' = "outDone" /\ exitMsg' = exitMsg
    /\ UNCHANGED <<ioError, totalLength, returnLegLength, bfVars, listVars, rgnVars>>
    /\ UNCHANGED <<argc, winArg, inOpened, outCreated, inFile, inFileSize,
                   outFile, lcnCnt, locs, iWin, nInsideWin, k, nPrev, itin>>

\* the assignment that leaves k as it is
AssignNoIncrement ==
    /\ \/ pc = "inDone" /\ nNext # -1
       \/ pc = "outDone"
    /\ locs' = [locs EXCEPT ![nNext].iOrd = k]
    /\ k' = k
    /\ nPrev' = nNext
    /\ itin' = Append(itin, nNext)
    /\ pc' = IF k < lcnCnt THEN "loop" ELSE "sort"
    /\ UNCHANGED <<ioError, totalLength, returnLegLength, bfVars, listVars, rgnVars>>
    /\ UNCHANGED <<exitMsg, argc, winArg, inOpened, outCreated, inFile,
                   inFileSize, outFile, lcnCnt, iWin, nInsideWin, nOutsideWin,
                   nNext>>

\* the assignment with the increment taken before the store (= ++k)
AssignPreIncrement ==
    /\ \/ pc = "inDone" /\ nNext # -1
       \/ pc = "outDone"
    /\ locs' = [locs EXCEPT ![nNext].iOrd = k + 1]
    /\ k' = k + 1
    /\ nPrev' = nNext
    /\ itin' = Append(itin, nNext)
    /\ pc' = IF k + 1 < lcnCnt THEN "loop" ELSE "sort"
    /\ UNCHANGED <<ioError, totalLength, returnLegLength, bfVars, listVars, rgnVars>>
    /\ UNCHANGED <<exitMsg, argc, winArg, inOpened, outCreated, inFile,
                   inFileSize, outFile, lcnCnt, iWin, nInsideWin, nOutsideWin,
                   nNext>>

\* the assignment that also writes the location found to the output file
AssignAndEmit ==
    /\ \/ pc = "inDone" /\ nNext # -1
       \/ pc = "outDone"
    /\ locs' = [locs EXCEPT ![nNext].iOrd = k]
    /\ k' = k + 1
    /\ nPrev' = nNext
    /\ itin' = Append(itin, nNext)
    /\ outFile' = Append(outFile, locs[nNext].ptUs8)
    /\ pc' = IF k + 1 < lcnCnt THEN "loop" ELSE "sort"
    /\ UNCHANGED <<ioError, totalLength, returnLegLength, bfVars, listVars, rgnVars>>
    /\ UNCHANGED <<exitMsg, argc, winArg, inOpened, outCreated, inFile,
                   inFileSize, lcnCnt, iWin, nInsideWin, nOutsideWin, nNext>>

\* locs[nNext].iOrd = k++; nPrev = nNext; and the next test of the while
Assign ==
    /\ \/ pc = "inDone" /\ nNext # -1
       \/ pc = "outDone"
    /\ locs' = [locs EXCEPT ![nNext].iOrd = k]
    /\ k' = k + 1
    /\ nPrev' = nNext
    /\ itin' = Append(itin, nNext)
    /\ pc' = IF k + 1 < lcnCnt THEN "loop" ELSE "sort"
    /\ UNCHANGED <<ioError, totalLength, returnLegLength, bfVars, listVars, rgnVars>>
    /\ UNCHANGED <<exitMsg, argc, winArg, inOpened, outCreated, inFile,
                   inFileSize, outFile, lcnCnt, iWin, nInsideWin, nOutsideWin,
                   nNext>>

\* qsort(locs, lcnCnt, sizeof(struct loc), compIntsIx0);
SortLocs ==
    /\ pc = "sort"
    /\ locs' = qsort(locs, lcnCnt)
    /\ pc' = "metrics"
    /\ UNCHANGED <<ioError, totalLength, returnLegLength, bfVars, listVars, rgnVars>>
    /\ UNCHANGED <<exitMsg, argc, winArg, inOpened, outCreated, inFile,
                   inFileSize, outFile, lcnCnt, iWin, nInsideWin, nOutsideWin,
                   k, nPrev, nNext, itin>>

\* nemo_GeodesicSzpila over the points of two tokens: the tokens of the model
\* are a whole number of quarter circles apart (chord square 0, 2 or 4)
GeodesicSzpila(t1, t2) == NEMO_ChordSq3(Us8ToNcs(t1), Us8ToNcs(t2)) \div 2

\* totalLength after the pass n = 1 .. last of the loop over the sorted array
RECURSIVE LegSum(_)
LegSum(last) ==
    IF last < 1 THEN 0
    ELSE LegSum(last - 1)
            + GeodesicSzpila(locs[last - 1].ptUs8, locs[last].ptUs8)

\* the lengths a leg to a point that was never initialised may come out as
AnyLeg == {GeodesicSzpila(0, t) : t \in 0..5}

\* totalLength = sum of the legs; returnLegLength = leg from locs[0] to ptEnr,
\* the point the loop converted last.  With one location the loop never
\* runs and ptEnr is read without having been initialised; with none,
\* locs[0] is outside the array as well.
Metrics ==
    /\ pc = "metrics"
    /\ IF lcnCnt = 0
       THEN \/ pc' = "crash" /\ UNCHANGED <<totalLength, returnLegLength>>
            \/ /\ pc' = "write"
               /\ totalLength' = 0
               /\ returnLegLength' \in AnyLeg
       ELSE /\ pc' = "write"
            /\ totalLength' = LegSum(lcnCnt - 1)
            /\ IF lcnCnt = 1
               THEN returnLegLength' \in AnyLeg
               ELSE returnLegLength' =
                       GeodesicSzpila(locs[0].ptUs8, locs[lcnCnt - 1].ptUs8)
    /\ UNCHANGED <<ioError, bfVars, listVars, rgnVars>>
    /\ UNCHANGED <<exitMsg, argc, winArg, inOpened, outCreated, inFile,
                   inFileSize, outFile, lcnCnt, locs, iWin, nInsideWin,
                   nOutsideWin, k, nPrev, nNext, itin>>

\* outFp = fopen(argv[2], "wb"); for (n...) fwrite(&locUs8, ...); fclose
\* The result of fwrite is not looked at.  Writes is the set of numbers of
\* records the writes may store before the device fails.
WriteOutputWritten(Writes) ==
    /\ pc = "write"
    /\ \E opens \in BOOLEAN, written \in Writes :
        IF ~opens
        THEN /\ pc' = "exit"
             /\ exitMsg' = "Can't open for writing itinerary sorted locations"
             /\ outFile' = outFile
             /\ ioError' = ioError
        ELSE /\ pc' = "done"
             /\ exitMsg' = exitMsg
             /\ outFile' = [n \in 1..written |-> locs[n - 1].ptUs8]
             /\ ioError' = IF written < lcnCnt THEN "write" ELSE ioError
    /\ UNCHANGED <<totalLength, returnLegLength, bfVars, listVars, rgnVars>>
    /\ UNCHANGED <<argc, winArg, inOpened, outCreated, inFile, inFileSize,
                   lcnCnt, locs, iWin, nInsideWin, nOutsideWin, k, nPrev,
                   nNext, itin>>

\* the output when every write stores its record
WriteOutput == WriteOutputWritten({lcnCnt})

\* the output on a device whose writes may fail
WriteOutputFaulty == WriteOutputWritten(0..lcnCnt)

Next ==
    \/ CheckArgs
    \/ OpenInput
    \/ OpenOutput
    \/ CheckWindow
    \/ FileSize
    \/ LoadLocs
    \/ Start
    \/ InWin
    \/ OutWin
    \/ Assign
    \/ SortLocs
    \/ Metrics
    \/ WriteOutput

Spec == Init /\ [][Next]_vars

\* the whole program on devices whose reads and writes may fail
NextIO ==
    \/ CheckArgs
    \/ OpenInput
    \/ OpenOutput
    \/ CheckWindow
    \/ FileSize
    \/ LoadLocsFaulty
    \/ Start
    \/ InWin
    \/ OutWin
    \/ Assign
    \/ SortLocs
    \/ Metrics
    \/ WriteOutputFaulty

SpecIO == Init /\ [][NextIO]_vars

\* the whole program with a window argument of any kind, on files of at most
\* ArgsMaxFileSize bytes; the half-window is at least MIN_WIN / 2, beyond
\* the end of these stores, so closeInWin always finds the next location
NextArgs ==
    \/ CheckArgs
    \/ OpenInput
    \/ OpenOutput
    \/ CheckWindowAny
    \/ FileSizeShort
    \/ LoadLocs
    \/ Start
    \/ InWin
    \/ Assign
    \/ SortLocs
    \/ Metrics
    \/ WriteOutput

SpecArgs == Init /\ [][NextArgs]_vars

----------------------------------------------------------------------------
(* The search engine alone: a loaded store, any half-window *)

InitWin ==
    /\ pc = "start"
    /\ exitMsg = "none"
    /\ argc = 4
    /\ inOpened = TRUE
    /\ outCreated = TRUE
    /\ outFile = <<>>
    /\ lcnCnt \in 1..WinMaxN
    /\ inFileSize = lcnCnt * UsRecSize
    /\ inFile \in TokenSeqs(lcnCnt, WinMaxTok)
    /\ locs = [n \in 0..(lcnCnt - 1) |-> [iOrd |-> -1, ptUs8 |-> inFile[n + 1]]]
    /\ iWin \in 0..MaxHalf
    /\ winArg = 2 * iWin
    /\ nInsideWin = 0
    /\ nOutsideWin = 0
    /\ k = 0
    /\ nPrev = 0
    /\ nNext = 0
    /\ itin = <<>>
    /\ ioError = "none"
    /\ totalLength = 0
    /\ returnLegLength = 0
    /\ BfIdle
    /\ ListIdle
    /\ RgnIdle

NextWin ==
    \/ Start
    \/ InWin
    \/ OutWin
    \/ Assign

SpecWin == InitWin /\ [][NextWin]_vars

\* the loaded stores of the runs that are followed to their end
InitWinFair ==
    /\ pc = "start"
    /\ exitMsg = "none"
    /\ argc = 4
    /\ inOpened = TRUE
    /\ outCreated = TRUE
    /\ outFile = <<>>
    /\ lcnCnt \in 1..FairMaxN
    /\ inFileSize = lcnCnt * UsRecSize
    /\ inFile \in TokenSeqs(lcnCnt, FairMaxTok)
    /\ locs = [n \in 0..(lcnCnt - 1) |-> [iOrd |-> -1, ptUs8 |-> inFile[n + 1]]]
    /\ iWin \in 0..MaxHalf
    /\ winArg = 2 * iWin
    /\ nInsideWin = 0
    /\ nOutsideWin = 0
    /\ k = 0
    /\ nPrev = 0
    /\ nNext = 0
    /\ itin = <<>>
    /\ ioError = "none"
    /\ totalLength = 0
    /\ returnLegLength = 0
    /\ BfIdle
    /\ ListIdle
    /\ RgnIdle

\* the driver loop run to its end: main() is one thread that is never
\* suspended for good, so a step that can be taken is taken
SpecWinFair == InitWinFair /\ [][NextWin]_vars /\ WF_vars(NextWin)

----------------------------------------------------------------------------
(* One call of the searches on any store of the driver loop's shape:       *)
(* index 0 is visited (order 0), the pivot is the location visited last,   *)
(* k locations are visited and k < lcnCnt.                                 *)

\* number of members of the set S below n
RankIn(S, n) == Cardinality({m \in S : m < n})

InitFn ==
    /\ pc = "loop"
    /\ ioError = "none"
    /\ totalLength = 0
    /\ returnLegLength = 0
    /\ BfIdle
    /\ ListIdle
    /\ RgnIdle
    /\ exitMsg = "none"
    /\ argc = 4
    /\ inOpened = TRUE
    /\ outCreated = TRUE
    /\ outFile = <<>>
    /\ lcnCnt \in 2..OutMaxN
    /\ inFileSize = lcnCnt * UsRecSize
    /\ inFile \in IF lcnCnt <= FnMaxN THEN TokenSeqs(lcnCnt, FnMaxTok)
                                      ELSE TokenSeqs(lcnCnt, 0)
    /\ iWin \in 0..FnMaxHalf
    /\ winArg = 2 * iWin
    /\ nInsideWin = 0
    /\ nOutsideWin = 0
    /\ nNext = 0
    /\ \E V \in SUBSET (0..(lcnCnt - 1)) :
        /\ 0 \in V
        /\ V # 0..(lcnCnt - 1)
        /\ k = Cardinality(V)
        /\ nPrev \in V
        /\ (nPrev = 0) => (V = {0})
        /\ locs = [n \in 0..(lcnCnt - 1) |->
                     [iOrd |-> IF n \notin V THEN -1
                               ELSE IF n = nPrev THEN k - 1
                               ELSE RankIn(V \ {nPrev}, n),
                      ptUs8 |-> inFile[n + 1]]]
        /\ itin = [i \in 1..k |->
                     CHOOSE n \in V : locs[n].iOrd = i - 1]

NextFn ==
    \/ InWin
    \/ OutWin

SpecFn == InitFn /\ [][NextFn]_vars

----------------------------------------------------------------------------
(* The sort alone, on any completed store: every location has one of the   *)
(* orders 0..lcnCnt-1, index 0 the order 0.                                *)

\* the one-to-one assignments of the orders 0..n-1 to the indices 0..n-1
\* that give index 0 the order 0
Orders(n) ==
    {f \in [0..(n - 1) -> 0..(n - 1)] :
        /\ f[0] = 0
        /\ \A i, j \in 0..(n - 1) : (f[i] = f[j]) => (i = j)}

InitSort ==
    /\ pc = "sort"
    /\ exitMsg = "none"
    /\ argc = 4
    /\ inOpened = TRUE
    /\ outCreated = TRUE
    /\ outFile = <<>>
    /\ lcnCnt \in 1..SortMaxN
    /\ inFileSize = lcnCnt * UsRecSize
    /\ inFile \in TokenSeqs(lcnCnt, SortMaxTok)
    /\ \E f \in Orders(lcnCnt) :
        /\ locs = [n \in 0..(lcnCnt - 1) |->
                     [iOrd |-> f[n], ptUs8 |-> inFile[n + 1]]]
        /\ itin = [i \in 1..lcnCnt |->
                     CHOOSE n \in 0..(lcnCnt - 1) : f[n] = i - 1]
    /\ iWin = MIN_WIN \div 2
    /\ winArg = MIN_WIN
    /\ nInsideWin = lcnCnt - 1
    /\ nOutsideWin \in 0..(lcnCnt - 1)
    /\ k = lcnCnt
    /\ nPrev = itin[lcnCnt]
    /\ nNext = IF lcnCnt > 1 THEN nPrev ELSE 0
    /\ ioError = "none"
    /\ totalLength = 0
    /\ returnLegLength = 0
    /\ BfIdle
    /\ ListIdle
    /\ RgnIdle

NextSort ==
    \/ SortLocs
    \/ Metrics

SpecSort == InitSort /\ [][NextSort]_vars

----------------------------------------------------------------------------
(* nearNextP8bBruteForce: main() from the loaded array on *)

\* for (nn = ...; nn < lcnCnt; nn++) { cld = ...; if (cld < nld) {...} }:
\* the index nx the inner loop ends with
RECURSIVE BfScan(_, _, _, _)
BfScan(nn, head, nld, nx) ==
    IF nn >= lcnCnt THEN nx
    ELSE LET cld == NEMO_ChordSq3(Us8ToNcs(locations[head]),
                                  Us8ToNcs(locations[nn]))
         IN  IF cld < nld THEN BfScan(nn + 1, head, cld, nn)
                          ELSE BfScan(nn + 1, head, nld, nx)

\* totalLength after the pass n = 1 .. last of the loop over locations
RECURSIVE BfLegSum(_)
BfLegSum(last) ==
    IF last < 1 THEN 0
    ELSE BfLegSum(last - 1) + GeodesicSzpila(locations[last - 1], locations[last])

InitBf ==
    /\ pc = "bfLoop"
    /\ exitMsg = "none"
    /\ argc = 3
    /\ winArg = 0
    /\ inOpened = TRUE
    /\ outCreated = FALSE
    /\ outFile = <<>>
    /\ lcnCnt \in 1..BfMaxN
    /\ inFileSize = lcnCnt * UsRecSize
    /\ inFile \in TokenSeqs(lcnCnt, BfMaxTok)
    /\ locations = [n \in 0..(lcnCnt - 1) |-> inFile[n + 1]]
    /\ bfN = 0
    /\ locs = NoLocs
    /\ iWin = 0
    /\ nInsideWin = 0
    /\ nOutsideWin = 0
    /\ k = 0
    /\ nPrev = 0
    /\ nNext = 0
    /\ itin = <<>>
    /\ ioError = "none"
    /\ totalLength = 0
    /\ returnLegLength = 0
    /\ ListIdle
    /\ RgnIdle

\* one pass of for (n = 0; n < (lcnCnt - 2); n++) { ...; n++; }: the nearest
\* of the locations after n is swapped to n + 1; n is incremented by the
\* body and again by the loop header
BfSelect ==
    /\ pc = "bfLoop"
    /\ bfN < lcnCnt - 2
    /\ LET nx == BfScan(bfN + 1, bfN, NEMO_DOUBLE_HUGE, -1) IN
        IF nx = -1
        THEN /\ pc' = "exit"
             /\ exitMsg' = "Unexpected error while searching for next location"
             /\ UNCHANGED bfVars
        ELSE /\ locations' = [locations EXCEPT ![bfN + 1] = locations[nx],
                                               ![nx] = locations[bfN + 1]]
             /\ bfN' = bfN + 1 + 1
             /\ UNCHANGED <<pc, exitMsg>>
    /\ UNCHANGED <<ioError, totalLength, returnLegLength, listVars, rgnVars>>
    /\ UNCHANGED <<argc, winArg, inOpened, outCreated, inFile, inFileSize,
                   outFile, lcnCnt, locs, iWin, nInsideWin, nOutsideWin, k,
                   nPrev, nNext, itin>>

\* the end of the loop, the length report (as in nearNextP8bWindow: with one
\* location ptEnr is read without having been initialised) and the output,
\* whose fwrite is checked
BfFinish ==
    /\ pc = "bfLoop"
    /\ ~(bfN < lcnCnt - 2)
    /\ totalLength' = BfLegSum(lcnCnt - 1)
    /\ IF lcnCnt = 1
       THEN returnLegLength' \in AnyLeg
       ELSE returnLegLength' =
               GeodesicSzpila(locations[0], locations[lcnCnt - 1])
    /\ \E opens \in BOOLEAN :
        IF ~opens
        THEN /\ pc' = "exit"
             /\ exitMsg' = "Can't open for writing itinerary sorted locations"
             /\ UNCHANGED <<outCreated, outFile>>
        ELSE /\ pc' = "bfDone"
             /\ exitMsg' = exitMsg
             /\ outCreated' = TRUE
             /\ outFile' = [n \in 1..lcnCnt |-> locations[n - 1]]
    /\ UNCHANGED <<ioError, bfVars, listVars, rgnVars>>
    /\ UNCHANGED <<argc, winArg, inOpened, inFile, inFileSize, lcnCnt, locs,
                   iWin, nInsideWin, nOutsideWin, k, nPrev, nNext, itin>>

NextBf ==
    \/ BfSelect
    \/ BfFinish

SpecBf == InitBf /\ [][NextBf]_vars

----------------------------------------------------------------------------
(* listP8b: main() from the first fread on *)

\* the records the files of the model hold
Us8Recs == 0..((ListMaxPlate + 1) * (ListMaxLow + 1) - 1)

\* iPlate = (int)((ptUs8 & 0xf000000000000000) >> 60)
PlateOf(rec) == rec \div (ListMaxLow + 1)

InitList ==
    /\ pc = "listLoop"
    /\ exitMsg = "none"
    /\ argc \in {2, 3}
    /\ listK \in IF argc > 2 THEN (-1)..ListMaxK ELSE {0}
    /\ inOpened = TRUE
    /\ inFile \in UNION {[1..len -> Us8Recs] : len \in 0..ListMaxN}
    /\ inFileSize = Len(inFile) * UsRecSize
    /\ listM = IF Len(inFile) > 0 THEN 1 ELSE 0
    /\ ptUs8 = IF Len(inFile) > 0 THEN inFile[1] ELSE 0
    /\ prevPtUs8 = 0
    /\ listN = 0
    /\ printed = <<>>
    /\ winArg = 0
    /\ outCreated = FALSE
    /\ outFile = <<>>
    /\ lcnCnt = 0
    /\ locs = NoLocs
    /\ iWin = 0
    /\ nInsideWin = 0
    /\ nOutsideWin = 0
    /\ k = 0
    /\ nPrev = 0
    /\ nNext = 0
    /\ itin = <<>>
    /\ ioError = "none"
    /\ totalLength = 0
    /\ returnLegLength = 0
    /\ BfIdle
    /\ RgnIdle

\* one pass of while (m) { ... }: the limit, the three checks, the line,
\* n++ and the next fread.  prevPtUs8 is assigned nowhere in the loop.
ListRecord ==
    /\ pc = "listLoop"
    /\ listM # 0
    /\ IF (listK # 0) /\ (listN >= listK)
       THEN /\ pc' = "listDone"
            /\ UNCHANGED <<exitMsg, listN, listM, ptUs8, printed>>
       ELSE IF ptUs8 = prevPtUs8
       THEN /\ pc' = "exit"
            /\ exitMsg' = "duplicate coordinates"
            /\ UNCHANGED <<listN, listM, ptUs8, printed>>
       ELSE IF ptUs8 < prevPtUs8
       THEN /\ pc' = "exit"
            /\ exitMsg' = "file sort order?"
            /\ UNCHANGED <<listN, listM, ptUs8, printed>>
       ELSE IF (PlateOf(ptUs8) < 1) \/ (PlateOf(ptUs8) > 6)
       THEN /\ pc' = "exit"
            /\ exitMsg' = "invalid digiNental plate number"
            /\ UNCHANGED <<listN, listM, ptUs8, printed>>
       ELSE /\ printed' = Append(printed, ptUs8)
            /\ listN' = listN + 1
            /\ listM' = IF listN + 1 < Len(inFile) THEN 1 ELSE 0
            /\ ptUs8' = IF listN + 1 < Len(inFile) THEN inFile[listN + 2]
                                                   ELSE ptUs8
            /\ UNCHANGED <<pc, exitMsg>>
    /\ UNCHANGED <<listK, prevPtUs8>>
    /\ UNCHANGED <<ioError, totalLength, returnLegLength, bfVars, rgnVars>>
    /\ UNCHANGED <<argc, winArg, inOpened, outCreated, inFile, inFileSize,
                   outFile, lcnCnt, locs, iWin, nInsideWin, nOutsideWin, k,
                   nPrev, nNext, itin>>

\* the end of the file: fclose, the count of locations, return(0)
ListEnd ==
    /\ pc = "listLoop"
    /\ listM = 0
    /\ pc' = "listDone"
    /\ UNCHANGED <<ioError, totalLength, returnLegLength, bfVars, listVars, rgnVars>>
    /\ UNCHANGED <<exitMsg, argc, winArg, inOpened, outCreated, inFile,
                   inFileSize, outFile, lcnCnt, locs, iWin, nInsideWin,
                   nOutsideWin, k, nPrev, nNext, itin>>

NextList ==
    \/ ListRecord
    \/ ListEnd

SpecList == InitList /\ [][NextList]_vars

----------------------------------------------------------------------------
(* rgnToR8b (src/unnamed/part_000): main() from the first input line on *)

\* the vertices of the input files of the model, as UniSpherical tokens
RgnToks == 0..RgnMaxTok

\* the values the uninitialised local ringStartPtUs8 may hold: any vertex of
\* the file, or a value that is no vertex of the file
RgnJunk == 0..(RgnMaxTok + 1)

\* if (ptUs8 != ringStartPtUs8)
RingIsOpen(pt, start) == pt # start

\* the state after the files have been opened and the counters set to zero;
\* ringStartPtUs8 is declared without a value (line 238) and ptUs8 is
\* written before it is read
InitRgn ==
    /\ pc = "rgnRead"
    /\ exitMsg = "none"
    /\ argc = 3
    /\ inOpened = TRUE
    /\ outCreated = TRUE
    /\ nLnIn = 0 /\ nComments = 0 /\ nMarks = 0 /\ markLast = 0
    /\ nSegPts = 0 /\ nTotalPts = 0 /\ nRecOut = 0
    /\ maxVert = 0
    /\ minVert = RgnMinVertInit
    /\ prevSeg = -1
    /\ nCountMismatch = 0 /\ nIdSequence = 0 /\ nRingOpen = 0
    /\ rgnPtUs8 = 0
    /\ ringStartPtUs8 \in RgnJunk
    /\ ringFirst = 0
    /\ ringsOpen = 0
    /\ inFile = <<>>
    /\ inFileSize = 0
    /\ winArg = 0
    /\ outFile = <<>>
    /\ lcnCnt = 0
    /\ locs = NoLocs
    /\ iWin = 0
    /\ nInsideWin = 0
    /\ nOutsideWin = 0
    /\ k = 0
    /\ nPrev = 0
    /\ nNext = 0
    /\ itin = <<>>
    /\ ioError = "none"
    /\ totalLength = 0
    /\ returnLegLength = 0
    /\ BfIdle
    /\ ListIdle

\* a blank line or a line that starts with ';' or '#'
RgnComment ==
    /\ pc = "rgnRead"
    /\ nLnIn < RgnMaxLines
    /\ nLnIn' = nLnIn + 1
    /\ nComments' = nComments + 1
    /\ UNCHANGED <<nMarks, markLast, nSegPts, nTotalPts, nRecOut, maxVert,
                   minVert, prevSeg, nCountMismatch, nIdSequence, nRingOpen,
                   rgnPtUs8, ringStartPtUs8, ringFirst, ringsOpen>>
    /\ UNCHANGED <<ioError, totalLength, returnLegLength, bfVars, listVars>>
    /\ UNCHANGED <<pc, exitMsg, argc, winArg, inOpened, outCreated, inFile,
                   inFileSize, outFile, lcnCnt, locs, iWin, nInsideWin,
                   nOutsideWin, k, nPrev, nNext, itin>>

\* a line that starts with '*': the marker "* iSeg (nSeg)" that ends a ring.
\* The id is the one that follows the previous id, another one, or an id
\* too large for the marker record; the count is the number of vertices read
\* or another number; the write of the marker record may fail.
RgnMarker ==
    /\ pc = "rgnRead"
    /\ nLnIn < RgnMaxLines
    /\ nLnIn' = nLnIn + 1
    /\ nMarks' = nMarks + 1
    /\ IF nSegPts # 0
       THEN \E iSeg \in {prevSeg + 1, prevSeg + 2, RgnPlateLimit},
               nSeg \in {nSegPts, nSegPts + 1},
               written \in {0, 1} :
            /\ nCountMismatch' = IF nSeg # nSegPts THEN nCountMismatch + 1
                                                   ELSE nCountMismatch
            /\ nIdSequence' = IF iSeg # prevSeg + 1 THEN nIdSequence + 1
                                                    ELSE nIdSequence
            /\ nRingOpen' = IF RingIsOpen(rgnPtUs8, ringStartPtUs8)
                            THEN nRingOpen + 1 ELSE nRingOpen
            /\ ringsOpen' = IF rgnPtUs8 # ringFirst THEN ringsOpen + 1
                                                    ELSE ringsOpen
            /\ prevSeg' = iSeg
            /\ maxVert' = IF nSegPts > maxVert THEN nSegPts ELSE maxVert
            /\ minVert' = IF nSegPts < minVert THEN nSegPts ELSE minVert
            /\ nTotalPts' = nTotalPts + nSegPts
            /\ IF iSeg >= RgnPlateLimit
               THEN /\ pc' = "exit"
                    /\ exitMsg' = "ring/segment-id overflow?"
                    /\ UNCHANGED <<nRecOut, nSegPts>>
               ELSE IF written # 1
               THEN /\ pc' = "exit"
                    /\ exitMsg' = "Marker write error"
                    /\ UNCHANGED <<nRecOut, nSegPts>>
               ELSE /\ nRecOut' = nRecOut + 1
                    /\ nSegPts' = 0
                    /\ UNCHANGED <<pc, exitMsg>>
            /\ markLast' = markLast
       ELSE /\ markLast' = markLast + 1
            /\ UNCHANGED <<pc, exitMsg, nSegPts, nTotalPts, nRecOut, maxVert,
                           minVert, prevSeg, nCountMismatch, nIdSequence,
                           nRingOpen, ringsOpen>>
    /\ UNCHANGED <<nComments, rgnPtUs8, ringStartPtUs8, ringFirst>>
    /\ UNCHANGED <<ioError, totalLength, returnLegLength, bfVars, listVars>>
    /\ UNCHANGED <<argc, winArg, inOpened, outCreated, inFile, inFileSize,
                   outFile, lcnCnt, locs, iWin, nInsideWin, nOutsideWin, k,
                   nPrev, nNext, itin>>

\* any other line is a vertex: conversion to a token, fwrite, nRecOut++,
\* nSegPts++; if (nSegPts == 0) ringStartPtUs8 = ptUs8;
\* The test is made after the increment.
RgnVertex ==
    /\ pc = "rgnRead"
    /\ nLnIn < RgnMaxLines
    /\ nLnIn' = nLnIn + 1
    /\ \E t \in RgnToks, written \in {0, 1} :
        /\ rgnPtUs8' = t
        /\ IF written # 1
           THEN /\ pc' = "exit"
                /\ exitMsg' = "Coordinates write error"
                /\ UNCHANGED <<nRecOut, nSegPts, ringStartPtUs8, ringFirst>>
           ELSE /\ nRecOut' = nRecOut + 1
                /\ nSegPts' = nSegPts + 1
                /\ ringStartPtUs8' = IF nSegPts' = 0 THEN t
                                                     ELSE ringStartPtUs8
                /\ ringFirst' = IF nSegPts = 0 THEN t ELSE ringFirst
                /\ UNCHANGED <<pc, exitMsg>>
    /\ UNCHANGED <<nComments, nMarks, markLast, nTotalPts, maxVert, minVert,
                   prevSeg, nCountMismatch, nIdSequence, nRingOpen, ringsOpen>>
    /\ UNCHANGED <<ioError, totalLength, returnLegLength, bfVars, listVars>>
    /\ UNCHANGED <<argc, winArg, inOpened, outCreated, inFile, inFileSize,
                   outFile, lcnCnt, locs, iWin, nInsideWin, nOutsideWin, k,
                   nPrev, nNext, itin>>

\* the end of the input: the files are closed, the counts are printed and
\* more than one marker without vertices is reported
RgnEnd ==
    /\ pc = "rgnRead"
    /\ IF markLast > 1
       THEN pc' = "exit" /\ exitMsg' = "Terminating markers"
       ELSE pc' = "rgnDone" /\ exitMsg' = exitMsg
    /\ UNCHANGED <<ioError, totalLength, returnLegLength, bfVars, listVars,
                   rgnVars>>
    /\ UNCHANGED <<argc, winArg, inOpened, outCreated, inFile, inFileSize,
                   outFile, lcnCnt, locs, iWin, nInsideWin, nOutsideWin, k,
                   nPrev, nNext, itin>>

NextRgn ==
    \/ RgnComment
    \/ RgnMarker
    \/ RgnVertex
    \/ RgnEnd

SpecRgn == InitRgn /\ [][NextRgn]_vars

----------------------------------------------------------------------------
(* Vocabulary of the properties, stated without the search operators *)

Indices == 0..(lcnCnt - 1)

Unvisited == {n \in Indices : locs[n].iOrd = -1}

\* the index range [pivot - iWin, pivot + iWin) cut to the array
Window(pivot) == {n \in Indices : pivot - iWin <= n /\ n < pivot + iWin}

\* proxy distance between the locations at two indices
Csq(m, n) == NEMO_ChordSq3(Us8ToNcs(locs[m].ptUs8), Us8ToNcs(locs[n].ptUs8))

Abs(x) == IF x < 0 THEN -x ELSE x

\* n is at least as good a choice from pivot as m: nearer, or as near and
\* not behind it in the array
Beats(pivot, n, m) ==
    \/ Csq(pivot, n) < Csq(pivot, m)
    \/ Csq(pivot, n) = Csq(pivot, m) /\ n <= m

FormatMsg == "Input file size not multiple"

----------------------------------------------------------------------------
(* C1..C10 *)

\* C1: when the construction loop has terminated (N >= 1) the iOrd values of
\* the N locations are exactly 0..N-1, each held by exactly one location, and
\* no location is left at -1.
C1_OrdersArePermutation ==
    (pc \in {"sort", "metrics", "write", "done"} /\ lcnCnt >= 1) =>
        /\ {locs[n].iOrd : n \in Indices} = Indices
        /\ \A m, n \in Indices : (locs[m].iOrd = locs[n].iOrd) => (m = n)
        /\ k = lcnCnt

C1_Witness ==
    /\ pc = "sort"
    /\ lcnCnt >= 10
    /\ nOutsideWin > 0
    /\ \E i \in 1..Len(itin) : itin[i] # i - 1

\* C2: closeInWin(pivot) returns an unvisited index of the window
\* [max(0, pivot-iWin), min(N, pivot+iWin)) whose proxy distance to the pivot
\* is the least among the unvisited indices of the window, and returns -1
\* exactly when the window holds no unvisited index.
C2_WindowMinimum ==
    (pc = "inDone") =>
        LET cand == Window(nPrev) \cap Unvisited IN
        /\ (nNext = -1) <=> (cand = {})
        /\ (nNext # -1) =>
              /\ nNext \in cand
              /\ \A m \in cand : Csq(nPrev, nNext) <= Csq(nPrev, m)

C2_Witness ==
    /\ pc = "inDone"
    /\ nNext # -1
    /\ \E m \in Window(nPrev) \cap Unvisited :
          m < nNext /\ Csq(nPrev, m) > Csq(nPrev, nNext)
    /\ \E u \in Unvisited \ Window(nPrev) : Csq(nPrev, u) <= Csq(nPrev, nNext)
    /\ \E v \in Window(nPrev) : locs[v].iOrd # -1 /\ v # nPrev

\* C3: among unvisited candidates of the window that share the least proxy
\* distance, closeInWin returns the one of lowest index.
C3_TieLowestIndex ==
    (pc = "inDone" /\ nNext # -1) =>
        \A m \in Window(nPrev) \cap Unvisited :
            (Csq(nPrev, m) = Csq(nPrev, nNext)) => (nNext <= m)

C3_Witness ==
    /\ pc = "inDone"
    /\ nNext # -1
    /\ \E m \in Window(nPrev) \cap Unvisited :
          m > nNext /\ Csq(nPrev, m) = Csq(nPrev, nNext)

\* C4: when the window holds no unvisited location and some location is
\* unvisited, closeOutWin(pivot) returns the unvisited index outside the
\* window nearest by index to the pivot, the low side winning when a low and
\* a high index are equally far.
C4_OutwardNearestByIndex ==
    (pc = "outDone") =>
        LET out == Unvisited \ Window(nPrev) IN
        /\ Window(nPrev) \cap Unvisited = {}
        /\ nNext \in out
        /\ \A m \in out :
              /\ Abs(nNext - nPrev) <= Abs(m - nPrev)
              /\ (Abs(nNext - nPrev) = Abs(m - nPrev)) => (nNext <= m)

C4_Witness ==
    /\ pc = "outDone"
    /\ iWin >= 1
    /\ nNext < nPrev
    /\ \E m \in Unvisited : m > nPrev /\ m - nPrev = nPrev - nNext

\* C5: in the driver loop (k < N) the two searches together always yield an
\* unvisited index: index 0, which closeOutWin never examines, is visited, so
\* closeOutWin does not return -1 and the "Program assertion?" exit is never
\* taken.
C5_FallbackAlwaysFinds ==
    /\ exitMsg # "Program assertion?"
    /\ (pc \in {"loop", "inDone", "outDone"}) =>
          /\ k < lcnCnt
          /\ Unvisited # {}
          /\ locs[0].iOrd # -1
          /\ nPrev \in Indices \ Unvisited
    /\ (pc = "inDone" /\ nNext # -1) => (nNext \in Unvisited)
    /\ (pc = "outDone") => (nNext \in Unvisited)

C5_Witness ==
    /\ pc = "outDone"
    /\ nPrev - iWin > 0
    /\ nNext > nPrev
    /\ \A n \in Indices : (n < nPrev) => (locs[n].iOrd # -1)

\* C6: after the sort and the output pass the output file holds exactly N
\* records, record i is the coordinate of the location visited i-th, and the
\* output records are the input records rearranged (same multiset).
C6_OutputIsItinerary ==
    /\ (pc = "sort" /\ lcnCnt >= 1) =>
          \A i \in 1..lcnCnt :
              /\ locs[itin[i]].iOrd = i - 1
              /\ locs[itin[i]].ptUs8 = inFile[itin[i] + 1]
    /\ (pc \in {"metrics", "write", "done"} /\ lcnCnt >= 1) =>
          \A n \in Indices :
              /\ locs[n].iOrd = n
              /\ locs[n].ptUs8 = inFile[itin[n + 1] + 1]
    /\ (pc = "done" /\ lcnCnt >= 1) =>
          /\ Len(outFile) = lcnCnt
          /\ \A i \in 1..lcnCnt : outFile[i] = inFile[itin[i] + 1]
          /\ \A t \in 0..MaxTok :
                Cardinality({i \in 1..lcnCnt : outFile[i] = t})
                    = Cardinality({i \in 1..lcnCnt : inFile[i] = t})

C6_Witness ==
    /\ pc = "done"
    /\ lcnCnt >= 3
    /\ outFile # inFile
    /\ \E i \in 1..lcnCnt : itin[i] # i - 1

\* the index an unbounded nearest-neighbour search picks from pivot among the
\* indices of the set free: least proxy distance, lowest index on ties
NearestOf(pivot, free) ==
    CHOOSE n \in free : \A m \in free : Beats(pivot, n, m)

\* C7: with iWin >= N closeInWin returns what an unbounded nearest-neighbour
\* search over all unvisited locations returns; closeOutWin is never invoked
\* and the itinerary is the nearest-neighbour tour from index 0.
C7_FullWindowIsBruteForce ==
    (iWin >= lcnCnt) =>
        /\ (pc = "inDone") => (nNext # -1 /\ nNext = NearestOf(nPrev, Unvisited))
        /\ pc \in {"loop", "inDone", "outDone", "sort"} => nOutsideWin = 0
        /\ pc # "outDone"
        /\ (pc = "sort") =>
              /\ Len(itin) = lcnCnt
              /\ itin[1] = 0
              /\ \A i \in 2..lcnCnt :
                    itin[i] = NearestOf(itin[i - 1],
                                Indices \ {itin[j] : j \in 1..(i - 1)})

C7_Witness ==
    /\ pc = "sort"
    /\ iWin = lcnCnt
    /\ lcnCnt >= 4
    /\ \E i \in 1..lcnCnt : itin[i] # i - 1

\* C9: an input file whose length is not a multiple of the record size
\* (lengths below one record included) ends the run with the format error,
\* before loading and construction.
C9_BadLengthRejected ==
    (inFileSize % UsRecSize # 0) => (pc = "exit" /\ exitMsg = FormatMsg)

\* C10: when the input length is not a multiple of the record size the run
\* fails with the format error and the output path has not been created or
\* truncated.
C10_NoOutputOnBadLength ==
    (inFileSize % UsRecSize # 0) =>
        (~outCreated /\ outFile = <<>> /\ pc = "exit" /\ exitMsg = FormatMsg)

----------------------------------------------------------------------------
(* C11..C20 *)

\* C11: when the window size argument is outside MIN_WIN..MAX_WIN the run
\* ends with the window error before any file is opened: the input file has
\* not been opened for reading and the output file has not been created.
C11_WindowErrorBeforeFiles ==
    (pc = "exit" /\ exitMsg = "invalid window size") =>
        (~inOpened /\ ~outCreated)

\* C12: when a read fails during the load or a write fails during the output
\* the run ends with an error; it neither goes on with the construction nor
\* ends as a success.
C12_IoErrorEndsRun ==
    (ioError # "none") => (pc = "exit")

\* C13: no record is in the output file before the construction loop has
\* ended with k = N and the array has been sorted by visiting order; a run
\* that has ended in an error has written no record.
C13_OutputAllOrNothing ==
    /\ (outFile # <<>>) =>
          /\ pc = "done"
          /\ k = lcnCnt
          /\ \A n \in Indices : locs[n].iOrd = n
    /\ (pc \in {"exit", "crash"}) => (outFile = <<>>)

C13_Witness ==
    /\ pc = "done"
    /\ lcnCnt >= 3
    /\ Len(outFile) = lcnCnt
    /\ k = lcnCnt

\* the run has passed the test of the window argument
PastWindow ==
    \/ pc \in {"size", "load", "start", "loop", "inDone", "outDone", "sort",
               "metrics", "write", "done", "crash"}
    \/ /\ pc = "exit"
       /\ exitMsg \in {FormatMsg, "Program assertion?",
                       "Can't open for writing itinerary sorted locations"}

C15_SortIdempotent ==
    /\ (pc = "sort" /\ lcnCnt >= 1) =>
          qsort(qsort(locs, lcnCnt), lcnCnt) = qsort(locs, lcnCnt)
    /\ (pc \in {"metrics", "write", "done"} /\ lcnCnt >= 1) =>
          /\ \A n \in Indices : locs[n].iOrd = n
          /\ qsort(locs, lcnCnt) = locs
          /\ \A n \in Indices : qsort(locs, lcnCnt)[n].ptUs8 = locs[n].ptUs8

C15_Witness ==
    /\ pc = "metrics"
    /\ lcnCnt >= 3
    /\ \E i \in 1..lcnCnt : itin[i] # i - 1
    /\ \E i \in 1..lcnCnt : inFile[i] # locs[i - 1].ptUs8

\* the second selection of the scenario: five locations, half-window 1,
\* index 0 and then index 1 visited, the search for the third starting
\* from the pivot 1
SecondSelection == lcnCnt = 5 /\ iWin = 1 /\ k = 2 /\ nPrev = 1

\* C16 as stated: in the 5-point scenario with half-window 1, after index 1
\* has been visited, closeInWin at pivot 1 returns index 2, so that the
\* second selection is made by the in-window search.
C16_WindowSearchSelectsSecond ==
    (SecondSelection /\ pc = "inDone") => (nNext = 2)

\* C16, amended: in the 5-point scenario with half-window 1, after index 1
\* has been visited, closeInWin at pivot 1 scans [0, 2), the indices 0 and 1,
\* both visited, and returns -1; index 2 is then returned by closeOutWin, so
\* that the second selection is index 2, made by the outward fallback as the
\* first one was.
C16_FallbackSelectsSecond ==
    /\ (SecondSelection /\ pc \in {"loop", "inDone", "outDone"}) =>
          /\ Window(nPrev) = {0, 1}
          /\ locs[0].iOrd = 0 /\ locs[1].iOrd = 1
    /\ (SecondSelection /\ pc = "inDone") => (nNext = -1)
    /\ (SecondSelection /\ pc = "outDone") =>
          /\ nNext = 2
          /\ nOutsideWin = 2

C16_Witness ==
    /\ SecondSelection
    /\ pc = "outDone"
    /\ nNext = 2
    /\ Csq(1, 2) < Csq(1, 3)
    /\ Csq(0, 1) > Csq(0, 4)

\* the steps of the itinerary whose location lies in the window of its pivot:
\* those closeInWin found (closeOutWin looks at indices outside the window only)
InWindowSteps ==
    Cardinality({i \in 1..(Len(itin) - 1) : itin[i + 1] \in Window(itin[i])})

\* C17: at the end of the construction nInsideWin is the number of steps whose
\* location closeInWin found, nOutsideWin the number of steps whose location
\* closeOutWin found, and the two add up to N - 1.
C17_CountersCountFinds ==
    (pc = "sort" /\ lcnCnt >= 1) =>
        /\ nInsideWin = InWindowSteps
        /\ nOutsideWin = (lcnCnt - 1) - InWindowSteps
        /\ nInsideWin + nOutsideWin = lcnCnt - 1

\* the records of the array in visiting order, as the length report reads them
SortedTokens == [i \in 1..lcnCnt |-> locs[i - 1].ptUs8]

\* the sum of the distances between the consecutive members of a sequence
RECURSIVE OpenLength(_)
OpenLength(s) ==
    IF Len(s) < 2 THEN 0
    ELSE GeodesicSzpila(s[1], s[2]) + OpenLength(Tail(s))

\* C18: for N >= 1, after the length report, totalLength is the sum of the
\* N-1 distances between consecutive records of the ordered sequence, the
\* closing leg not included, and returnLegLength is the distance from the
\* last record to the first (with one record: of the point to itself).
C18_TourMetrics ==
    (pc \in {"write", "done"} /\ lcnCnt >= 1) =>
        /\ totalLength = OpenLength(SortedTokens)
        /\ returnLegLength =
              GeodesicSzpila(SortedTokens[lcnCnt], SortedTokens[1])

\* C19: in the output of nearNextP8bBruteForce the record at every position
\* i of 1..N-1 is a nearest one to the record at position i-1 among the
\* records at the positions i..N-1.
C19_BruteForceNearestNext ==
    (pc = "bfDone") =>
        \A i \in 2..lcnCnt : \A j \in i..lcnCnt :
            NEMO_ChordSq3(Us8ToNcs(outFile[i - 1]), Us8ToNcs(outFile[i]))
                <= NEMO_ChordSq3(Us8ToNcs(outFile[i - 1]), Us8ToNcs(outFile[j]))

\* the positions (from 1) of the records of the file that are equal to or
\* smaller than the record before them
Disordered == {i \in 2..Len(inFile) : inFile[i] <= inFile[i - 1]}

\* C20: listP8b ends with an error at the first record that is equal to or
\* smaller than the record before it: no line is printed for that record or
\* a later one, and a run without a line limit does not end normally on a
\* file that has such a record.
C20_ListAbortsOnDisorder ==
    /\ \A i \in Disordered : Len(printed) < i
    /\ (pc = "listDone" /\ listK = 0) => (Disordered = {})

----------------------------------------------------------------------------
(* C21..C30 *)

\* the unvisited locations outside the window of the pivot
OutsideFree == Unvisited \ Window(nPrev)

\* C21 as stated: when closeInWin found nothing, the location closeOutWin
\* chooses is a nearest one to the pivot by proxy distance among the
\* unvisited locations outside the window.
C21_FallbackNearestByDistance ==
    (pc = "outDone") =>
        \A m \in OutsideFree : Csq(nPrev, nNext) <= Csq(nPrev, m)

\* C21, amended: when closeInWin found nothing, the location closeOutWin
\* chooses is the unvisited location next to the window in the array: every
\* index strictly nearer to the pivot than the chosen one is visited, and so
\* is the index as far below the pivot as the chosen one is above it;
\* distances are not looked at.
C21_FallbackNextInArray ==
    (pc = "outDone") =>
        /\ nNext \in OutsideFree
        /\ \A n \in Indices :
              (Abs(n - nPrev) < Abs(nNext - nPrev)) => (locs[n].iOrd # -1)
        /\ (nNext > nPrev /\ nPrev - (nNext - nPrev) >= 0) =>
              (locs[nPrev - (nNext - nPrev)].iOrd # -1)

C21_Witness ==
    /\ pc = "outDone"
    /\ \E m \in OutsideFree :
          /\ Csq(nPrev, m) < Csq(nPrev, nNext)
          /\ Abs(m - nPrev) > Abs(nNext - nPrev)

\* C22: during the construction an iOrd that is no longer -1 is never
\* written again: a step leaves the iOrd of every visited location as it is,
\* and a step that changes the array changes one location, from -1 to the
\* value of k, that location being the index the searches returned.
C22_OrderWrittenOnce ==
    [][ /\ \A n \in Indices :
              (locs[n].iOrd # -1) => (locs'[n].iOrd = locs[n].iOrd)
        /\ (locs' # locs) =>
              \E n \in Indices :
                  /\ locs[n].iOrd = -1
                  /\ locs'[n].iOrd = IF pc = "start" THEN 0 ELSE k
                  /\ (pc # "start") => (n = nNext)
                  /\ \A m \in Indices \ {n} : locs'[m] = locs[m] ]_vars

C22_Witness ==
    /\ pc = "sort"
    /\ lcnCnt >= 4
    /\ nOutsideWin > 0
    /\ \E i \in 1..lcnCnt : itin[i] # i - 1

\* the locations that have an order
Visited == {n \in Indices : locs[n].iOrd # -1}

\* C23: whenever the driver has just evaluated its loop condition (the loop
\* goes on, or it has ended and the sort is next), the number of locations
\* with an order equals k, their orders are exactly 0..k-1, and
\* 1 <= k <= N.
C23_LoopInvariant ==
    (pc \in {"loop", "sort"}) =>
        /\ Cardinality(Visited) = k
        /\ {locs[n].iOrd : n \in Visited} = 0..(k - 1)
        /\ 1 <= k
        /\ k <= lcnCnt

\* C24: for N >= 1, from the start of the construction to the sort exactly
\* one location has order 0 and it is the location at index 0; the first
\* record of the output file is the first record of the input file.
C24_StartIsFirstRecord ==
    (lcnCnt >= 1) =>
        /\ (pc \in {"loop", "inDone", "outDone", "sort"}) =>
              {n \in Indices : locs[n].iOrd = 0} = {0}
        /\ (pc \in {"metrics", "write", "done"}) =>
              locs[0].ptUs8 = inFile[1]
        /\ (outFile # <<>>) => (outFile[1] = inFile[1])

C24_Witness ==
    /\ pc = "done"
    /\ lcnCnt >= 3
    /\ outFile # <<>>
    /\ outFile[1] = inFile[1]
    /\ outFile[2] # inFile[2]
    /\ nOutsideWin > 0

\* C25: a step that counts a call of closeOutWin, or that hands on a result
\* of closeOutWin, is taken only when closeInWin has just returned -1 for the
\* pivot the fallback is given; when closeInWin has returned an index, the
\* next step is not a call of closeOutWin and leaves nOutsideWin as it is.
C25_FallbackOnlyAfterMiss ==
    [][ /\ (nOutsideWin' # nOutsideWin \/ pc' = "outDone") =>
              /\ pc = "inDone"
              /\ nNext = -1
              /\ closeInWin(nPrev) = -1
              /\ nPrev' = nPrev
              /\ nOutsideWin' = nOutsideWin + 1
        /\ (pc = "inDone" /\ nNext # -1) =>
              /\ nOutsideWin' = nOutsideWin
              /\ pc' # "outDone" ]_vars

C25_Witness ==
    /\ pc = "sort"
    /\ nOutsideWin >= 1
    /\ nOutsideWin < lcnCnt - 1
    /\ nInsideWin = lcnCnt - 1

\* C26: a call of closeInWin (the step taken at the head of the loop body)
\* leaves every location's order and coordinate, the pivot, k, the
\* half-width, the record count and nOutsideWin as they are, whether it finds
\* a candidate or not; it adds one to nInsideWin.
C26_WindowSearchFrame ==
    [][ (pc = "loop") =>
            /\ locs' = locs
            /\ nPrev' = nPrev
            /\ k' = k
            /\ iWin' = iWin
            /\ lcnCnt' = lcnCnt
            /\ nOutsideWin' = nOutsideWin
            /\ nInsideWin' = nInsideWin + 1
            /\ nNext' = closeInWin(nPrev) ]_vars

C26_Witness ==
    /\ pc = "inDone"
    /\ nNext = -1
    /\ nInsideWin >= 3
    /\ nOutsideWin = 0
    /\ Unvisited # {}

\* C27: for N >= 1 the construction ends: the run reaches the end of the
\* loop and stays there with k = N after exactly N-1 passes of the loop body
\* (one call of closeInWin each); every call of closeOutWin makes at most N
\* passes of its scan loop, and every pass that does not return moves nLow
\* down or nHigh up.
C27_ConstructionTerminates ==
    /\ <>[](/\ pc = "sort"
            /\ k = lcnCnt
            /\ nInsideWin = lcnCnt - 1
            /\ Len(itin) = lcnCnt)
    /\ [](/\ (pc = "inDone" /\ nNext = -1) =>
                 closeOutWinPasses(nPrev) <= lcnCnt
          /\ \A nLow \in 0..lcnCnt, nHigh \in 0..lcnCnt :
                 OutScanGoesOn(nLow, nHigh) =>
                     \/ (IF nLow > 0 THEN nLow - 1 ELSE nLow) < nLow
                     \/ (IF nHigh < lcnCnt THEN nHigh + 1 ELSE nHigh) > nHigh)

C27_Witness ==
    /\ pc = "sort"
    /\ k = lcnCnt
    /\ lcnCnt >= 4
    /\ nInsideWin = lcnCnt - 1
    /\ nOutsideWin >= 2

\* C28: for N >= 1 every index at which the driver and the two searches
\* access the array is in 0..N-1: for every pivot of the array the reads of
\* closeInWin and of closeOutWin, in the driver the pivot handed to the
\* searches, which is a visited location, and the index the driver writes
\* its order to.
C28_AccessesInsideArray ==
    (lcnCnt >= 1) =>
        /\ \A nLast \in Indices :
              /\ closeInWinReads(nLast) \subseteq Indices
              /\ closeOutWinReads(nLast) \subseteq Indices
        /\ (pc \in {"loop", "inDone", "outDone"}) =>
              /\ nPrev \in Indices
              /\ locs[nPrev].iOrd # -1
        /\ (pc = "outDone" \/ (pc = "inDone" /\ nNext # -1)) =>
              nNext \in Indices

C28_Witness ==
    /\ pc = "outDone"
    /\ lcnCnt >= 4
    /\ iWin >= 1
    /\ nPrev - iWin < 0
    /\ nNext \in closeOutWinReads(nPrev)
    /\ closeInWinReads(nPrev) # {nPrev}

\* the size test of line 100 has been made on a file without a complete
\* record: inFileSize % lcnCnt with lcnCnt = 0
ZeroCountModulo ==
    /\ lcnCnt = 0
    /\ \/ pc \in {"load", "start", "sort", "metrics", "write", "done", "crash"}
       \/ pc = "exit" /\ exitMsg \in {FormatMsg,
                 "Can't open for writing itinerary sorted locations"}

\* the driver has stored the order of locs[0] in an array of no element
ZeroLengthStore ==
    /\ lcnCnt = 0
    /\ k = 1

\* C29: on an input file without a complete record (fewer than 8 bytes) the
\* run never takes a remainder by the record count 0 and never writes
\* locs[0] of an array of no element; it ends with a reported error or with
\* an empty itinerary.
C29_ZeroRecordsHandled ==
    /\ ~ZeroCountModulo
    /\ ~ZeroLengthStore
    /\ (lcnCnt = 0 /\ pc \in {"done", "exit", "crash"}) =>
          \/ pc = "exit" /\ exitMsg # "none"
          \/ pc = "done" /\ outFile = <<>>

\* C30: in rgnToR8b, while a ring is being read ringStartPtUs8 is the first
\* vertex of that ring, and the rings counted as open at the markers are
\* the rings whose last vertex was not their first.
C30_OpenRingsCounted ==
    /\ (nSegPts > 0) => (ringStartPtUs8 = ringFirst)
    /\ nRingOpen = ringsOpen

====
